---- MODULE Spec2Model ----
(***************************************************************************)
(* Model of the lock-picker mini-game: the SeededRandom generator and the  *)
(* LockPickerGame input reducer.  The repository holds two builds of the   *)
(* game, src/main.js and src/unnamed/part_000; the variable `variant`      *)
(* says which build a behaviour runs, and every handler is translated per  *)
(* build from its own source.                                              *)
(***************************************************************************)
EXTENDS Integers, Sequences, FiniteSets, TLC

\* ---------------------------------------------------------------- bounds
\* resets allowed in one behaviour (each reset advances the generator)
MaxResets == 1
\* seeds of the generator specification range over -MaxSeed..MaxSeed
MaxSeed == 12
\* nextInt(max) is applied with max in 1..MaxMax
MaxMax == 11
\* draws taken in one behaviour of the generator specification
MaxDraws == 3
\* changeDigit calls between two resets in the page specification
MaxChanges == 3
\* events played before the slot-by-slot procedure starts
MaxPlay == 3

\* ------------------------------------------------------ program constants
\* SeededRandom.next: multiplier, increment and modulus of the recurrence
LcgA == 9301
LcgC == 49297
LcgM == 233280
\* this.charset.length, charset = '0123456789'
N == 10
\* number of slots: this.slots = [0, 0, 0]
NumSlots == 3

Variants == {"js", "ts"}
\* seeds a session is constructed with (the ?seed= parameter, parseInt-ed)
Seeds == {1, 0 - 6}
SlotIdx == 0..(NumSlots - 1)
\* slot indices offered to selectSlot, in and out of range
SlotInputs == (0 - 1)..NumSlots
Directions == {1, 0 - 1}

VARIABLES
    variant,      \* which build runs: "js" = src/main.js, "ts" = part_000
    seed,         \* SeededRandom.seed
    slots,        \* LockPickerGame.slots        (the digits)
    currentSlot,  \* LockPickerGame.currentSlot  (the active slot)
    targetCode,   \* LockPickerGame.targetCode
    correctSlots, \* LockPickerGame.correctSlots (the per-slot flags)
    unlocked,     \* LockPickerGame.unlocked
    sounds,       \* audioManager.play calls made by the last handler, in order
    last,         \* the handler that ran last and its argument
    seed0,        \* the seed the session was constructed with
    resets,       \* number of reset() calls so far
    unlockCalls,  \* unlock() invocations since construction or the last reset
    scen,         \* correct confirms so far in a run of changeDigit/confirmSlot
                  \* events from the initial or a freshly reset state; -1 once
                  \* another event or a wrong confirm has broken the run
    drawMax,      \* generator specification: argument of the last nextInt
    drawInt,      \* generator specification: result of the last nextInt
    draws,        \* generator specification: draws taken so far
    fx,           \* feedback the last handler put on the safe element
    screen,       \* the section carrying the 'active' class: lockpicker or game
    timers,       \* pending setTimeout callbacks of unlock() and the animation
    hid,          \* WebHIDAdapter and the connect-device button
    gens,         \* two SeededRandom objects built from one seed, side by side
    changes,      \* page specification: changeDigit calls since the last reset
    display,      \* digitElements[i].textContent, as an index into charset
    animQ,        \* pending 150 ms callbacks of animateDigitChange, oldest first
    matrix,       \* MatrixAnimation: running frame loops and animationId
    solver        \* the player who opens the lock slot by slot: the step
                  \* they are at, the slot, changeDigit calls made on it,
                  \* and the events played before they started

vars == <<variant, seed, slots, currentSlot, targetCode, correctSlots,
          unlocked, sounds, last, seed0, resets, unlockCalls, scen,
          drawMax, drawInt, draws, fx, screen, timers, hid, gens,
          changes, display, animQ, matrix, solver>>

lock == <<slots, currentSlot, correctSlots, targetCode, unlocked>>
rngvars == <<drawMax, drawInt, draws>>
\* the page around the reducer: sections, timers, the HID adapter
shown == <<display, animQ>>
dom == <<screen, timers, changes, shown, matrix, solver>>
page == <<dom, hid>>

\* ------------------------------------------------------------ SeededRandom
\* JavaScript's % : the remainder takes the sign of the dividend
JsRem(a, b) == IF a >= 0 THEN a % b ELSE 0 - ((0 - a) % b)

\* Math.floor(x / y) for y > 0.  The code divides and multiplies in double
\* precision; for every seed in (-233280, 233280) and every max up to 12
\* Math.floor(seed / 233280 * max) equals the exact floor taken here.
Floor(x, y) == x \div y

\* (s * 9301) modulo 233280 for s >= 0, multiplied in two pieces so that no
\* intermediate value leaves the 32-bit integers of the checker; the code
\* multiplies in double precision, which is exact for these magnitudes
MulA(s) == (((s * (LcgA \div 100)) % LcgM) * 100 + s * (LcgA % 100)) % LcgM

\* next(): this.seed = (this.seed * 9301 + 49297) % 233280, % being
\* JavaScript's remainder (JsRem): for seed * 9301 + 49297 >= 0, that is
\* seed >= -5, the modulus; below, minus the modulus of the absolute value
LcgStep(s) ==
    IF s >= 0 - (LcgC \div LcgA)
    THEN (MulA(s) + LcgC) % LcgM
    ELSE 0 - ((MulA(0 - s) - LcgC) % LcgM)

IntDraw_Round(s, max) == Floor(2 * LcgStep(s) * max + LcgM, 2 * LcgM)

\* nextInt(max) on a generator in state s: Math.floor(next() * max),
\* next() being LcgStep(s) / 233280
IntDraw(s, max) == Floor(LcgStep(s) * max, LcgM)

CodeFrom_Swapped(s) ==
    LET s1 == LcgStep(s)
        s2 == LcgStep(s1)
    IN  [i \in SlotIdx |->
            IF i = 0 THEN IntDraw(s, N)
            ELSE IF i = 1 THEN IntDraw(s2, N)
            ELSE IntDraw(s1, N)]

\* generateTargetCode(): three nextInt(charset.length), slots 0, 1, 2
CodeFrom(s) ==
    LET s1 == LcgStep(s)
        s2 == LcgStep(s1)
    IN  [i \in SlotIdx |->
            IF i = 0 THEN IntDraw(s, N)
            ELSE IF i = 1 THEN IntDraw(s1, N)
            ELSE IntDraw(s2, N)]

\* the generator's seed after generateTargetCode()
SeedAfterCode(s) == LcgStep(LcgStep(LcgStep(s)))

RECURSIVE LcgIter(_, _)
\* the generator's seed after k calls of next() from seed s
LcgIter(s, k) == IF k = 0 THEN s ELSE LcgStep(LcgIter(s, k - 1))

\* ------------------------------------------------------------------ state
AllZero == [i \in SlotIdx |-> 0]
AllFalse == [i \in SlotIdx |-> FALSE]
Op(name, arg) == [op |-> name, arg |-> arg]

\* the setTimeout callbacks that lead from unlock() to the game screen, by
\* what they run: "unlock" is the timer set by unlock() (part_000: switches
\* to the game; main.js: matrixAnimation.start()); the others are the chain
\* of MatrixAnimation: fadeTimeout -> fadeToTerminal, -> typeText, its
\* typing timers, -> showWhiteRabbit, -> stop()
Stages == {"unlock", "fade", "type", "typing", "rabbit", "stop"}

\* no setTimeout callback pending (timers counts the pending ones per stage)
NoTimers == [st \in Stages |-> 0]

\* new WebHIDAdapter(): no device, no listener; the button enabled, no
\* connect() running, nothing returned yet.  inflight counts the connect()
\* calls that have not returned, clicks the clicks on the button (up to
\* two), calls the reducer handlers the last input report invoked
HidIdle == [pc |-> "idle", device |-> FALSE, listeners |-> 0,
            buttonDisabled |-> FALSE, connected |-> "none", supported |-> TRUE,
            inflight |-> 0, clicks |-> 0, calls |-> 0]

\* no generator pair under observation
NoGens == <<>>

\* new MatrixAnimation(): this.animationId = null, no frame requested
MatrixIdle == [frames |-> 0, animationId |-> FALSE]

\* nobody is following the slot-by-slot procedure
NoSolver == [pc |-> "off", i |-> 0, turns |-> 0, played |-> 0]

\* constructor + init(): fields initialised, target code generated, and
\* only then the input handlers wired
Init ==
    /\ variant \in Variants
    /\ seed0 \in Seeds
    /\ seed = SeedAfterCode(seed0)
    /\ targetCode = CodeFrom(seed0)
    /\ slots = AllZero
    /\ currentSlot = 0
    /\ correctSlots = AllFalse
    /\ unlocked = FALSE
    /\ sounds = <<>>
    /\ last = Op("init", 0)
    /\ resets = 0
    /\ unlockCalls = 0
    /\ scen = 0
    /\ drawMax = 0
    /\ drawInt = 0
    /\ draws = 0
    /\ fx = <<>>
    /\ screen = "lockpicker"
    /\ timers = NoTimers
    /\ hid = HidIdle
    /\ gens = NoGens
    /\ changes = 0
    /\ display = AllZero
    /\ animQ = <<>>
    /\ matrix = MatrixIdle
    /\ solver = NoSolver

\* ---------------------------------------------------------------- handlers
SelectIgnored_OffByOne(slotIndex) == unlocked \/ slotIndex < 0 \/ slotIndex > 3

SelectIgnored_NoLockGuard(slotIndex) == slotIndex < 0 \/ slotIndex >= 3

\* selectSlot's early return
SelectIgnored(slotIndex) == unlocked \/ slotIndex < 0 \/ slotIndex >= 3

selectSlot(slotIndex) ==
    /\ last' = Op("selectSlot", slotIndex)
    /\ IF SelectIgnored(slotIndex)
       THEN /\ currentSlot' = currentSlot
            /\ sounds' = <<>>
       ELSE /\ currentSlot' = slotIndex
            /\ sounds' = <<"tick">>
    /\ fx' = <<>>
    /\ scen' = IF unlocked THEN scen ELSE 0 - 1
    /\ UNCHANGED <<variant, seed, slots, targetCode, correctSlots, unlocked,
                   seed0, resets, unlockCalls, rngvars>>

ChangedDigit_Clamp(d, direction) ==
    IF d + direction < 0 THEN 0
    ELSE IF d + direction > N - 1 THEN N - 1
    ELSE d + direction

ChangedDigit_NoWrap(d, direction) == JsRem(d + direction, N)

\* the digit written by changeDigit
ChangedDigit(d, direction) == JsRem(d + direction + N, N)

changeDigit(direction) ==
    /\ last' = Op("changeDigit", direction)
    /\ fx' = <<>>
    /\ IF unlocked
       THEN /\ UNCHANGED <<slots, correctSlots>>
            /\ sounds' = <<>>
       ELSE LET new == ChangedDigit(slots[currentSlot], direction)
            IN  /\ slots' = [slots EXCEPT ![currentSlot] = new]
                /\ correctSlots' =
                       IF variant = "js"
                       THEN [correctSlots EXCEPT ![currentSlot] = FALSE]
                       ELSE correctSlots
                /\ sounds' =
                       IF variant = "js" /\ new = targetCode[currentSlot]
                       THEN <<"correct">>
                       ELSE <<"tick">>
    /\ UNCHANGED <<variant, seed, currentSlot, targetCode, unlocked,
                   seed0, resets, unlockCalls, scen, rngvars>>

AllCorrect_Any(flags) == \E i \in SlotIdx : flags[i]

\* correctSlots.every(correct => correct)
AllCorrect(flags) == \A i \in SlotIdx : flags[i]

\* currentSlot after a confirm: main.js moves on after a correct one,
\* part_000 never moves
AdvancedSlot(cur, isCorrect) ==
    IF variant = "js" /\ isCorrect /\ cur < 2 THEN cur + 1 ELSE cur

\* what unlock() puts on the safe element: the buzz animation in main.js,
\* the 'unlocked' class in part_000
UnlockFx == IF variant = "js" THEN <<"buzz">> ELSE <<"unlocked">>

\* confirmSlot, including the unlock() it calls when every flag is set
confirmSlot ==
    /\ last' = Op("confirmSlot", 0)
    /\ IF unlocked
       THEN /\ UNCHANGED <<currentSlot, correctSlots, unlocked, unlockCalls, scen>>
            /\ sounds' = <<>>
            /\ fx' = <<>>
       ELSE LET isCorrect == slots[currentSlot] = targetCode[currentSlot]
                flags == [correctSlots EXCEPT ![currentSlot] = isCorrect]
            IN  /\ correctSlots' = flags
                /\ currentSlot' = AdvancedSlot(currentSlot, isCorrect)
                /\ IF AllCorrect(flags)
                   THEN /\ unlocked' = TRUE
                        /\ unlockCalls' = unlockCalls + 1
                        /\ fx' = UnlockFx
                   ELSE /\ UNCHANGED <<unlocked, unlockCalls>>
                        /\ fx' = <<>>
                /\ sounds' = (IF isCorrect THEN <<"correct">> ELSE <<>>)
                             \o (IF AllCorrect(flags) THEN <<"unlock">> ELSE <<>>)
                /\ scen' = IF isCorrect /\ scen >= 0 /\ scen < NumSlots
                           THEN scen + 1 ELSE 0 - 1
    /\ UNCHANGED <<variant, seed, slots, targetCode, seed0, resets, rngvars>>

Matches_Some(ds, code) == \E i \in SlotIdx : ds[i] = code[i]

\* slots.every((slot, index) => slot === targetCode[index])
Matches(ds, code) == \A i \in SlotIdx : ds[i] = code[i]

\* the "enter combination" button, wired in main.js only; calls unlock()
\* on a match
checkCombination ==
    /\ variant = "js"
    /\ last' = Op("checkCombination", 0)
    /\ IF unlocked
       THEN /\ UNCHANGED <<unlocked, unlockCalls, scen>>
            /\ sounds' = <<>>
            /\ fx' = <<>>
       ELSE /\ IF Matches(slots, targetCode)
               THEN /\ unlocked' = TRUE
                    /\ unlockCalls' = unlockCalls + 1
                    /\ sounds' = <<"unlock">>
                    /\ fx' = UnlockFx
               ELSE /\ UNCHANGED <<unlocked, unlockCalls>>
                    /\ sounds' = <<>>
                    /\ fx' = <<"shake">>
            /\ scen' = 0 - 1
    /\ UNCHANGED <<variant, seed, slots, currentSlot, targetCode, correctSlots,
                   seed0, resets, rngvars>>

GeneratorAtReset_Reseeded == seed0

\* the state of the generator reset() draws from: this.random, created once
\* in the constructor and never re-created
GeneratorAtReset == seed

reset ==
    /\ resets < MaxResets
    /\ last' = Op("reset", 0)
    /\ slots' = AllZero
    /\ currentSlot' = 0
    /\ correctSlots' = AllFalse
    /\ unlocked' = FALSE
    /\ targetCode' = CodeFrom(GeneratorAtReset)
    /\ seed' = SeedAfterCode(GeneratorAtReset)
    /\ sounds' = <<>>
    /\ fx' = <<>>
    /\ resets' = resets + 1
    /\ unlockCalls' = 0
    /\ scen' = 0
    /\ UNCHANGED <<variant, seed0, rngvars>>

Next ==
    \/ \E i \in SlotInputs : selectSlot(i)
    \/ \E d \in Directions : changeDigit(d)
    \/ confirmSlot
    \/ checkCombination
    \/ reset

\* the reducer on its own: the handlers above, the page left as loaded
Spec == Init /\ [][Next /\ UNCHANGED <<page, gens>>]_vars

\* ------------------------------------------- the generator on its own
\* new SeededRandom(seed) with an integer seed; the game fields are those
\* of the constructor before init() (targetCode = [])
RngInit ==
    /\ variant \in Variants
    /\ seed0 \in (0 - MaxSeed)..MaxSeed
    /\ seed = seed0
    /\ targetCode = <<>>
    /\ slots = AllZero
    /\ currentSlot = 0
    /\ correctSlots = AllFalse
    /\ unlocked = FALSE
    /\ sounds = <<>>
    /\ last = Op("new", 0)
    /\ resets = 0
    /\ unlockCalls = 0
    /\ scen = 0
    /\ drawMax = 0
    /\ drawInt = 0
    /\ draws = 0
    /\ fx = <<>>
    /\ screen = "lockpicker"
    /\ timers = NoTimers
    /\ hid = HidIdle
    /\ gens = NoGens
    /\ changes = 0
    /\ display = AllZero
    /\ animQ = <<>>
    /\ matrix = MatrixIdle
    /\ solver = NoSolver

gamevars == <<variant, slots, currentSlot, correctSlots, unlocked, sounds,
              seed0, resets, unlockCalls, scen, fx>>

\* next(): the value returned is seed' / 233280
next ==
    /\ draws < MaxDraws
    /\ seed' = LcgStep(seed)
    /\ last' = Op("next", 0)
    /\ draws' = draws + 1
    /\ UNCHANGED <<drawMax, drawInt, targetCode, gamevars>>

nextInt(max) ==
    /\ draws < MaxDraws
    /\ seed' = LcgStep(seed)
    /\ drawInt' = IntDraw(seed, max)
    /\ drawMax' = max
    /\ last' = Op("nextInt", max)
    /\ draws' = draws + 1
    /\ UNCHANGED <<targetCode, gamevars>>

generateTargetCode ==
    /\ draws + NumSlots <= MaxDraws
    /\ targetCode' = CodeFrom(seed)
    /\ seed' = SeedAfterCode(seed)
    /\ last' = Op("generateTargetCode", 0)
    /\ draws' = draws + NumSlots
    /\ UNCHANGED <<drawMax, drawInt, gamevars>>

RngNext ==
    \/ next
    \/ \E max \in 1..MaxMax : nextInt(max)
    \/ generateTargetCode

RngSpec == RngInit /\ [][RngNext /\ UNCHANGED <<page, gens>>]_vars

\* ----------------------------- two generators built from the same seed
Gen == {1, 2}

\* new SeededRandom(S) twice, S an integer; nothing drawn yet
PairInit ==
    /\ variant \in Variants
    /\ seed0 \in (0 - MaxSeed)..MaxSeed
    /\ seed = seed0
    /\ gens = [g \in Gen |-> [seed |-> seed0, outs |-> <<>>, code |-> <<>>]]
    /\ targetCode = <<>>
    /\ slots = AllZero
    /\ currentSlot = 0
    /\ correctSlots = AllFalse
    /\ unlocked = FALSE
    /\ sounds = <<>>
    /\ last = Op("new", 0)
    /\ resets = 0
    /\ unlockCalls = 0
    /\ scen = 0
    /\ drawMax = 0
    /\ drawInt = 0
    /\ draws = 0
    /\ fx = <<>>
    /\ screen = "lockpicker"
    /\ timers = NoTimers
    /\ hid = HidIdle
    /\ changes = 0
    /\ display = AllZero
    /\ animQ = <<>>
    /\ matrix = MatrixIdle
    /\ solver = NoSolver

pairNext_SharedSeed(g) ==
    /\ Len(gens[g].outs) < MaxDraws
    /\ gens' = [h \in Gen |->
                  IF h = g
                  THEN [gens[h] EXCEPT !.seed = LcgStep(gens[g].seed),
                                       !.outs = Append(@, LcgStep(gens[g].seed))]
                  ELSE [gens[h] EXCEPT !.seed = LcgStep(gens[g].seed)]]
    /\ last' = Op("next", g)
    /\ UNCHANGED <<seed, targetCode, rngvars, gamevars, page>>

\* next() on generator g: this.seed belongs to the object; outs collects
\* the values returned (as numerators over 233280)
pairNext(g) ==
    /\ Len(gens[g].outs) < MaxDraws
    /\ gens' = [gens EXCEPT ![g].seed = LcgStep(@),
                            ![g].outs = Append(@, LcgStep(gens[g].seed))]
    /\ last' = Op("next", g)
    /\ UNCHANGED <<seed, targetCode, rngvars, gamevars, page>>

\* generateTargetCode() of a session constructed on generator g, before
\* anything else has drawn from it
pairGenerate(g) ==
    /\ gens[g].outs = <<>>
    /\ NumSlots <= MaxDraws
    /\ gens' = [gens EXCEPT
                  ![g].seed = SeedAfterCode(@),
                  ![g].code = CodeFrom(gens[g].seed),
                  ![g].outs = <<LcgIter(gens[g].seed, 1),
                                LcgIter(gens[g].seed, 2),
                                LcgIter(gens[g].seed, 3)>>]
    /\ last' = Op("generateTargetCode", g)
    /\ UNCHANGED <<seed, targetCode, rngvars, gamevars, page>>

PairNext ==
    \/ \E g \in Gen : pairNext(g)
    \/ \E g \in Gen : pairGenerate(g)

PairSpec == PairInit /\ [][PairNext]_vars

\* ------------------------------------- the HID adapter (part_000 build)
\* first bytes of the input reports the device may send: the mapped ones
\* (0x01, 0x02, 0x03, 0x10..0x12) and two unmapped ones
HidBytes == {0, 1, 2, 3, 16, 17, 18, 19}

\* the page of the part_000 build once init() has run, in a browser with
\* or without navigator.hid; reports are the only input in this specification
HidInit ==
    /\ variant = "ts"
    /\ seed0 = 1
    /\ seed = SeedAfterCode(seed0)
    /\ targetCode = CodeFrom(seed0)
    /\ slots = AllZero
    /\ currentSlot = 0
    /\ correctSlots = AllFalse
    /\ unlocked = FALSE
    /\ sounds = <<>>
    /\ last = Op("init", 0)
    /\ resets = 0
    /\ unlockCalls = 0
    /\ scen = 0
    /\ drawMax = 0
    /\ drawInt = 0
    /\ draws = 0
    /\ fx = <<>>
    /\ screen = "lockpicker"
    /\ timers = NoTimers
    /\ hid \in {[HidIdle EXCEPT !.supported = b] : b \in BOOLEAN}
    /\ gens = NoGens
    /\ changes = 0
    /\ display = AllZero
    /\ animQ = <<>>
    /\ matrix = MatrixIdle
    /\ solver = NoSolver

reducer == <<variant, seed, slots, currentSlot, targetCode, correctSlots,
             unlocked, sounds, seed0, resets, unlockCalls, scen, fx, rngvars>>

\* connect() has returned false: the click handler re-enables the button
ConnectFailed(h) ==
    [h EXCEPT !.pc = "idle", !.connected = "false", !.buttonDisabled = FALSE,
              !.inflight = @ - 1]

\* connect() is called
ConnectCalled(h) ==
    [h EXCEPT !.inflight = @ + 1, !.clicks = IF @ < 2 THEN @ + 1 ELSE @]

clickConnect_NoDisable ==
    /\ ~hid.buttonDisabled
    /\ hid' = IF ~hid.supported
              THEN ConnectFailed(ConnectCalled(hid))
              ELSE [ConnectCalled(hid) EXCEPT !.pc = "requesting"]
    /\ last' = Op("clickConnect", 0)
    /\ UNCHANGED <<reducer, dom, gens>>

\* click on the connect-device button: the button is disabled and connect()
\* runs up to its first await, or returns false when WebHID is missing
clickConnect ==
    /\ ~hid.buttonDisabled
    /\ hid' = IF ~hid.supported
              THEN ConnectFailed(ConnectCalled(hid))
              ELSE [ConnectCalled(hid) EXCEPT !.buttonDisabled = TRUE,
                                              !.pc = "requesting"]
    /\ last' = Op("clickConnect", 0)
    /\ UNCHANGED <<reducer, dom, gens>>

\* requestDevice() resolves with n devices: with none connect() returns
\* false, otherwise the first is kept and open() is awaited
requestResolves(n) ==
    /\ hid.pc = "requesting"
    /\ hid' = IF n > 0
              THEN [hid EXCEPT !.device = TRUE, !.pc = "opening"]
              ELSE ConnectFailed(hid)
    /\ last' = Op("requestResolves", n)
    /\ UNCHANGED <<reducer, dom, gens>>

\* requestDevice() rejects: caught, connect() returns false
requestRejects ==
    /\ hid.pc = "requesting"
    /\ hid' = ConnectFailed(hid)
    /\ last' = Op("requestRejects", 0)
    /\ UNCHANGED <<reducer, dom, gens>>

\* open() resolves: the listener is added, connect() returns true and the
\* button stays disabled
openResolves ==
    /\ hid.pc = "opening"
    /\ hid' = [hid EXCEPT !.listeners = @ + 1, !.pc = "idle",
                          !.connected = "true", !.inflight = @ - 1]
    /\ last' = Op("openResolves", 0)
    /\ UNCHANGED <<reducer, dom, gens>>

openRejects_ListenerFirst ==
    /\ hid.pc = "opening"
    /\ hid' = [ConnectFailed(hid) EXCEPT !.listeners = @ + 1]
    /\ last' = Op("openRejects", 0)
    /\ UNCHANGED <<reducer, dom, gens>>

\* open() rejects: caught before addEventListener, connect() returns false
openRejects ==
    /\ hid.pc = "opening"
    /\ hid' = ConnectFailed(hid)
    /\ last' = Op("openRejects", 0)
    /\ UNCHANGED <<reducer, dom, gens>>

\* the first bytes handleInputReport maps to a reducer handler
MappedBytes == {1, 2, 3, 16, 17, 18}

\* an input report with first byte b reaches the registered listener; every
\* listener on the device would run handleInputReport once
handleInputReport(b) ==
    /\ hid.listeners >= 1
    /\ IF b = 1 THEN changeDigit(1)
       ELSE IF b = 2 THEN changeDigit(0 - 1)
       ELSE IF b = 3 THEN confirmSlot
       ELSE IF b >= 16 /\ b <= 18 THEN selectSlot(b - 16)
       ELSE /\ last' = Op("handleInputReport", b)
            /\ UNCHANGED reducer
    /\ hid' = [hid EXCEPT !.calls = IF b \in MappedBytes
                                    THEN hid.listeners ELSE 0]
    /\ UNCHANGED <<dom, gens>>

HidNext ==
    \/ clickConnect
    \/ \E n \in 0..2 : requestResolves(n)
    \/ requestRejects
    \/ openResolves
    \/ openRejects
    \/ \E b \in HidBytes : handleInputReport(b)

HidSpec == HidInit /\ [][HidNext]_vars

\* --------------------------------- the page: sections and unlock timers
\* a seed whose first two target codes are [1,1,0] and [0,0,1], so that the
\* lock can be opened within MaxChanges digit changes
PageSeeds == {52944}

PageInit ==
    /\ variant \in Variants
    /\ seed0 \in PageSeeds
    /\ seed = SeedAfterCode(seed0)
    /\ targetCode = CodeFrom(seed0)
    /\ slots = AllZero
    /\ currentSlot = 0
    /\ correctSlots = AllFalse
    /\ unlocked = FALSE
    /\ sounds = <<>>
    /\ last = Op("init", 0)
    /\ resets = 0
    /\ unlockCalls = 0
    /\ scen = 0
    /\ drawMax = 0
    /\ drawInt = 0
    /\ draws = 0
    /\ fx = <<>>
    /\ screen = "lockpicker"
    /\ timers = NoTimers
    /\ hid = HidIdle
    /\ gens = NoGens
    /\ changes = 0
    /\ display = AllZero
    /\ animQ = <<>>
    /\ matrix = MatrixIdle
    /\ solver = NoSolver

\* unlock(): besides the fields set in the reducer, one setTimeout
ScheduleUnlock ==
    IF unlockCalls' > unlockCalls
    THEN timers' = [timers EXCEPT !["unlock"] = @ + 1]
    ELSE timers' = timers

selectSlotOnPage(slotIndex) ==
    /\ selectSlot(slotIndex)
    /\ UNCHANGED <<dom, hid, gens>>

changeDigitOnPage(direction) ==
    /\ changes < MaxChanges
    /\ changeDigit(direction)
    /\ changes' = changes + 1
    /\ UNCHANGED <<screen, timers, shown, matrix, solver, hid, gens>>

confirmSlotOnPage ==
    /\ confirmSlot
    /\ ScheduleUnlock
    /\ UNCHANGED <<screen, changes, shown, matrix, solver, hid, gens>>

checkCombinationOnPage ==
    /\ checkCombination
    /\ ScheduleUnlock
    /\ UNCHANGED <<screen, changes, shown, matrix, solver, hid, gens>>

\* reset(): the lock picker section becomes the active one again; no timer
\* is cleared
resetOnPage ==
    /\ reset
    /\ screen' = "lockpicker"
    /\ changes' = 0
    /\ UNCHANGED <<timers, shown, matrix, solver, hid, gens>>

\* the stage a callback schedules next; stop() schedules nothing
Follows(st) ==
    IF st = "unlock" THEN "fade"
    ELSE IF st = "fade" THEN "type"
    ELSE IF st = "type" THEN "typing"
    ELSE IF st = "typing" THEN "rabbit"
    ELSE "stop"

\* a pending callback of stage st runs.  part_000: the unlock timer switches
\* to the game section.  main.js: each callback schedules the next one of
\* its chain; the unlock timer runs start(), whose animate() requests a
\* frame and stores its id in animationId; stop() cancels the frame that
\* animationId names and clears fadeTimeout (the fade timer of the latest
\* start(), if still pending), then switches to the game section.
timerFires(st) ==
    /\ timers[st] > 0
    /\ last' = Op(IF variant = "js" /\ st = "stop" THEN "stop" ELSE "timer", 0)
    /\ IF variant = "ts"
       THEN /\ timers' = [timers EXCEPT ![st] = @ - 1]
            /\ screen' = "game"
            /\ matrix' = matrix
       ELSE IF st = "stop"
       THEN /\ timers' = [timers EXCEPT !["stop"] = @ - 1,
                                        !["fade"] = IF @ > 0 THEN @ - 1 ELSE 0]
            /\ screen' = "game"
            /\ matrix' = IF matrix.animationId
                         THEN [frames |-> matrix.frames - 1,
                               animationId |-> FALSE]
                         ELSE matrix
       ELSE /\ timers' = [timers EXCEPT ![st] = @ - 1, ![Follows(st)] = @ + 1]
            /\ screen' = screen
            /\ matrix' = IF st = "unlock"
                         THEN [frames |-> matrix.frames + 1,
                               animationId |-> TRUE]
                         ELSE matrix
    /\ UNCHANGED <<reducer, changes, shown, solver, hid, gens>>

\* a requested animation frame runs: animate() draws, requests the next
\* frame of its loop and stores the new id in animationId
animate ==
    /\ matrix.frames > 0
    /\ matrix' = [matrix EXCEPT !.animationId = TRUE]
    /\ last' = Op("animate", 0)
    /\ UNCHANGED <<reducer, screen, timers, changes, shown, solver, hid, gens>>

PageNext ==
    \/ \E i \in SlotIdx : selectSlotOnPage(i)
    \/ \E d \in Directions : changeDigitOnPage(d)
    \/ confirmSlotOnPage
    \/ checkCombinationOnPage
    \/ resetOnPage
    \/ \E st \in Stages : timerFires(st)
    \/ animate

PageSpec == PageInit /\ [][PageNext]_vars

\* ------------------------------ the digit display and its 150 ms timers
\* changeDigit() with its animateDigitChange(): the new character is written
\* by a callback 150 ms later (the 300 ms callback nested in it only removes
\* a style class)
changeDigitShown(direction) ==
    /\ changes < MaxChanges
    /\ changeDigit(direction)
    /\ changes' = changes + 1
    /\ animQ' = IF unlocked
                THEN animQ
                ELSE Append(animQ, [slot |-> currentSlot,
                                    value |-> slots'[currentSlot]])
    /\ UNCHANGED <<display, screen, timers, matrix, solver, hid, gens>>

\* selectSlot() writes no digit
selectSlotShown(slotIndex) ==
    /\ selectSlot(slotIndex)
    /\ UNCHANGED <<dom, hid, gens>>

\* reset() ends with updateDisplay(): every digit element shows
\* charset[slots[i]]; no timer is cleared
resetShown ==
    /\ reset
    /\ display' = slots'
    /\ screen' = "lockpicker"
    /\ UNCHANGED <<animQ, timers, changes, matrix, solver, hid, gens>>

\* the oldest pending 150 ms callback runs (equal delays run in the order
\* they were set): digitElement.textContent = this.charset[newValue]
animateDigitChange ==
    /\ animQ # <<>>
    /\ display' = [display EXCEPT ![Head(animQ).slot] = Head(animQ).value]
    /\ animQ' = Tail(animQ)
    /\ last' = Op("animateDigitChange", Head(animQ).slot)
    /\ UNCHANGED <<reducer, screen, timers, changes, matrix, solver, hid, gens>>

DisplayNext ==
    \/ \E i \in SlotIdx : selectSlotShown(i)
    \/ \E d \in Directions : changeDigitShown(d)
    \/ resetShown
    \/ animateDigitChange

DisplaySpec == Init /\ [][DisplayNext]_vars

\* --------------------------------- opening the lock slot by slot
\* any event of the reducer, before the procedure starts
play ==
    /\ solver.pc = "off"
    /\ solver.played < MaxPlay
    /\ Next
    /\ solver' = [solver EXCEPT !.played = @ + 1]
    /\ UNCHANGED <<screen, timers, changes, shown, matrix, hid, gens>>

\* the procedure starts from the locked state reached so far
solveStarts ==
    /\ solver.pc = "off"
    /\ ~unlocked
    /\ solver' = [solver EXCEPT !.pc = "select", !.i = 0, !.turns = 0]
    /\ last' = Op("solve", 0)
    /\ UNCHANGED <<reducer, screen, timers, changes, shown, matrix, hid, gens>>

\* selectSlot(i)
solveSelects ==
    /\ solver.pc = "select"
    /\ selectSlot(solver.i)
    /\ solver' = [solver EXCEPT !.pc = "turn", !.turns = 0]
    /\ UNCHANGED <<screen, timers, changes, shown, matrix, hid, gens>>

\* changeDigit(+1) while the digit of slot i differs from the target digit,
\* at most N - 1 times
solveTurns ==
    /\ solver.pc = "turn"
    /\ slots[solver.i] # targetCode[solver.i]
    /\ solver.turns < N - 1
    /\ changeDigit(1)
    /\ solver' = [solver EXCEPT !.turns = @ + 1]
    /\ UNCHANGED <<screen, timers, changes, shown, matrix, hid, gens>>

\* confirmSlot() once the digit of slot i equals the target digit; then the
\* next slot, or the end of the procedure
solveConfirms ==
    /\ solver.pc = "turn"
    /\ slots[solver.i] = targetCode[solver.i]
    /\ confirmSlot
    /\ solver' = IF solver.i = NumSlots - 1
                 THEN [solver EXCEPT !.pc = "done"]
                 ELSE [solver EXCEPT !.pc = "select", !.i = @ + 1]
    /\ UNCHANGED <<screen, timers, changes, shown, matrix, hid, gens>>

SolveNext ==
    \/ play
    \/ solveStarts
    \/ solveSelects
    \/ solveTurns
    \/ solveConfirms

SolveSpec == Init /\ [][SolveNext]_vars

\* ------------------------------------------------------------ properties

\* C1: Unlocked is absorbing.  From a state with unlocked = TRUE, every
\* handler other than reset() leaves slots, currentSlot, correctSlots,
\* targetCode and unlocked as they were.
C1_UnlockedAbsorbing ==
    [][(unlocked /\ last'.op # "reset") => UNCHANGED lock]_vars

\* an in-range selectSlot for another slot ran on an unlocked lock
C1_Witness ==
    /\ unlocked
    /\ last.op = "selectSlot"
    /\ last.arg \in SlotIdx
    /\ last.arg # currentSlot

\* C2: unlocked is true exactly when all three correctSlots flags are true.
C2_UnlockedIffAllCorrect == unlocked <=> AllCorrect(correctSlots)

\* C3: whenever unlocked is true, slots equals targetCode in all three slots.
C3_UnlockedImpliesMatch == unlocked => Matches(slots, targetCode)

\* C4: for each slot i, correctSlots[i] implies slots[i] = targetCode[i].
C4_FlagImpliesMatch ==
    \A i \in SlotIdx : correctSlots[i] => slots[i] = targetCode[i]

\* C5: a confirmSlot() on a locked lock sets unlocked exactly when, before
\* the call, the active slot's digit equals its target digit and the flags
\* of both other slots are already true.
C5_ConfirmUnlocksIff ==
    [][(last'.op = "confirmSlot" /\ ~unlocked) =>
          (unlocked' <=>
              /\ slots[currentSlot] = targetCode[currentSlot]
              /\ \A j \in SlotIdx \ {currentSlot} : correctSlots[j])]_vars

\* the confirm that opened the lock has just run
C5_Witness ==
    /\ unlocked
    /\ last.op = "confirmSlot"
    /\ sounds = <<"correct", "unlock">>

\* C6: after three correct confirms in a run of changeDigit/confirmSlot
\* events from the initial state (no selectSlot), unlocked is true and
\* unlock() has been invoked exactly once, also after any later input.
C6_ScenarioUnlocksOnce ==
    scen = NumSlots => (unlocked /\ unlockCalls = 1)

\* C7: after any draw the value returned by next() lies in [0,1), the value
\* returned by nextInt(max) lies in [0,max), and every generated target
\* digit lies in [0,N).
C7_DrawsInRange ==
    /\ draws > 0 => (seed >= 0 /\ seed < LcgM)
    /\ drawMax >= 1 => (drawInt >= 0 /\ drawInt < drawMax)
    /\ \A i \in DOMAIN targetCode : targetCode[i] >= 0 /\ targetCode[i] < N

\* C8: slots always has exactly the three entries 0..2, each in [0,N), and
\* currentSlot is in [0,3).
C8_DigitsAndSlotInRange ==
    /\ DOMAIN slots = SlotIdx
    /\ \A i \in SlotIdx : slots[i] \in 0..(N - 1)
    /\ currentSlot \in SlotIdx

\* changeDigit(-1) has just wrapped the active slot's 0 around to N-1, in a
\* slot other than 0 (so a selectSlot has acted as well)
C8_Witness ==
    /\ last = Op("changeDigit", 0 - 1)
    /\ currentSlot # 0
    /\ slots[currentSlot] = N - 1

C10_ResetPostState ==
    [][last'.op = "reset" =>
          /\ slots' = AllZero
          /\ currentSlot' = 0
          /\ correctSlots' = AllFalse
          /\ unlocked' = FALSE
          /\ targetCode'[0] = IntDraw(seed, N)
          /\ targetCode'[1] = IntDraw(LcgStep(seed), N)
          /\ targetCode'[2] = IntDraw(LcgStep(LcgStep(seed)), N)
          /\ DOMAIN targetCode' = SlotIdx]_vars

\* a reset has just run and drawn three distinct target digits
C10_Witness ==
    /\ last.op = "reset"
    /\ slots = AllZero
    /\ targetCode[0] # targetCode[1]
    /\ targetCode[1] # targetCode[2]
    /\ targetCode[0] # targetCode[2]

Times9301(s) == (((s * 93) % 233280) * 100 + s) % 233280

RECURSIVE ChangeTimes(_, _, _)
\* the digit after k changeDigit(direction) calls on digit d
ChangeTimes(d, direction, k) ==
    IF k = 0 THEN d ELSE ChangeTimes(ChangedDigit(d, direction), direction, k - 1)

\* C13: on a locked lock changeDigit(direction) writes
\* (digit + direction + N) mod N in the active slot; the opposite direction
\* then brings the digit back, N steps in one direction bring it back, and
\* changeDigit(-1) on [0,0,0] with slot 0 active gives [9,0,0], slot 0 active.
C13_ChangeDigitWraps ==
    [][(last'.op = "changeDigit" /\ ~unlocked) =>
          LET d == slots[currentSlot]
              dir == last'.arg
              e == slots'[currentSlot]
          IN  /\ e = (d + dir + N) % N
              /\ ChangedDigit(e, 0 - dir) = d
              /\ ChangeTimes(d, dir, N) = d
              /\ (d = 0 /\ dir = 0 - 1) => e = N - 1
              /\ (slots = AllZero /\ currentSlot = 0 /\ dir = 0 - 1) =>
                    /\ slots' = (0 :> 9 @@ 1 :> 0 @@ 2 :> 0)
                    /\ currentSlot' = 0]_vars

\* changeDigit(-1) has just run on the initial state
C13_Witness ==
    /\ last = Op("changeDigit", 0 - 1)
    /\ slots = (0 :> 9 @@ 1 :> 0 @@ 2 :> 0)
    /\ currentSlot = 0
    /\ ~unlocked

\* C14: on a locked lock selectSlot(i) makes i the active slot when i is 0,
\* 1 or 2 and leaves the active slot alone for any other i; in both cases
\* slots, correctSlots, targetCode and unlocked are unchanged.
C14_SelectSlotFrame ==
    [][(last'.op = "selectSlot" /\ ~unlocked) =>
          /\ currentSlot' = IF last'.arg \in {0, 1, 2} THEN last'.arg
                            ELSE currentSlot
          /\ UNCHANGED <<slots, correctSlots, targetCode, unlocked>>]_vars

\* selectSlot(3) has just been ignored while slot 1 was active
C14_Witness ==
    /\ ~unlocked
    /\ last = Op("selectSlot", NumSlots)
    /\ currentSlot = 1

\* C15: on a locked lock checkCombination() sets unlocked exactly when the
\* three digits equal the three target digits; otherwise it changes no
\* field of the lock and only starts the shake feedback.
C15_CheckCombination ==
    [][(last'.op = "checkCombination" /\ ~unlocked) =>
          /\ unlocked' <=> (\A i \in SlotIdx : slots[i] = targetCode[i])
          /\ (\E i \in SlotIdx : slots[i] # targetCode[i]) =>
                /\ UNCHANGED lock
                /\ fx' = <<"shake">>
                /\ sounds' = <<>>]_vars

\* a combination with two right digits and a wrong one has been rejected
C15_Witness ==
    /\ last.op = "checkCombination"
    /\ fx = <<"shake">>
    /\ ~unlocked
    /\ slots[0] = targetCode[0]
    /\ slots[1] = targetCode[1]
    /\ slots[2] # targetCode[2]

\* C16: on a locked lock confirmSlot() sets the active slot's flag to
\* (digit = target digit); when true the active slot becomes
\* min(activeSlot + 1, 2), when false it stays; slots, targetCode and the
\* other slots' flags are unchanged.
C16_ConfirmSlotEffect ==
    [][(last'.op = "confirmSlot" /\ ~unlocked) =>
          LET isCorrect == slots[currentSlot] = targetCode[currentSlot]
          IN  /\ correctSlots'[currentSlot] = isCorrect
              /\ currentSlot' = IF isCorrect
                                THEN (IF currentSlot + 1 < 2 THEN currentSlot + 1 ELSE 2)
                                ELSE currentSlot
              /\ UNCHANGED <<slots, targetCode>>
              /\ \A j \in SlotIdx \ {currentSlot} :
                    correctSlots'[j] = correctSlots[j]]_vars

\* C17: on a locked lock changeDigit(direction) clears the active slot's
\* flag and changes nothing but that slot's digit and flag; it never sets
\* unlocked.
C17_ChangeDigitFrame ==
    [][(last'.op = "changeDigit" /\ ~unlocked) =>
          /\ correctSlots'[currentSlot] = FALSE
          /\ \A j \in SlotIdx \ {currentSlot} :
                /\ slots'[j] = slots[j]
                /\ correctSlots'[j] = correctSlots[j]
          /\ UNCHANGED <<currentSlot, targetCode, unlocked>>]_vars

\* C18: on a locked lock every changeDigit call plays exactly one sound:
\* 'correct' when the new digit of the active slot equals its target digit,
\* 'tick' otherwise.
C18_ChangeDigitSound ==
    [][(last'.op = "changeDigit" /\ ~unlocked) =>
          sounds' = IF slots'[currentSlot] = targetCode[currentSlot]
                    THEN <<"correct">> ELSE <<"tick">>]_vars

\* C19: a connect() that fails returns false and registers no listener,
\* so that with reports as the only input the lock stays as constructed and
\* no reducer handler runs; a connect() that succeeds returns true with
\* exactly one listener registered.
C19_ConnectOutcome ==
    /\ hid.listeners = IF hid.connected = "true" THEN 1 ELSE 0
    /\ hid.listeners = 0 =>
          /\ slots = AllZero
          /\ currentSlot = 0
          /\ correctSlots = AllFalse
          /\ targetCode = CodeFrom(seed0)
          /\ ~unlocked
          /\ last.op \notin {"selectSlot", "changeDigit", "confirmSlot"}

\* a device was chosen but open() rejected: connect() returned false, the
\* button is enabled again and nothing listens
C19_Witness ==
    /\ hid.connected = "false"
    /\ hid.device
    /\ last.op = "openRejects"
    /\ hid.listeners = 0
    /\ ~hid.buttonDisabled

\* C20: the game section is active only while the lock is unlocked, also
\* when reset() runs while timers of an earlier unlock are pending.
C20_GameOnlyWhenUnlocked == screen = "game" => unlocked

\* C21: once every pending animateDigitChange timer has fired, each slot
\* shows the character of its digit, also when a reset() ran while a timer
\* of an earlier changeDigit() was pending.
C21_DisplayAgreesWhenQuiet == animQ = <<>> => display = slots

\* C22: from every reachable locked state the procedure that, for each
\* slot in turn, selects it, calls changeDigit(+1) until its digit is the
\* target digit (at most N - 1 times) and confirms it, comes to its end, and
\* the lock is then unlocked.
C22_ProcedureUnlocks ==
    /\ (solver.pc = "turn" /\ slots[solver.i] # targetCode[solver.i]) =>
          solver.turns < N - 1
    /\ solver.pc = "done" => unlocked

\* C23: when stop() has returned, no animation frame is requested and no
\* fade timer is pending, also when a second start() ran before the stop().
C23_StopLeavesNothing ==
    last.op = "stop" => (matrix.frames = 0 /\ timers["fade"] = 0)

\* C24: however often the connect button is clicked and however the
\* attempts end, at most one input-report listener is registered, at most
\* one connect() is in flight, and one report invokes at most one reducer
\* handler.
C24_OneListenerOneConnect ==
    /\ hid.listeners <= 1
    /\ hid.inflight <= 1
    /\ hid.calls <= 1

\* after a second click on the button a device is connected and its report
\* has just run confirmSlot(), once
C24_Witness ==
    /\ hid.clicks = 2
    /\ hid.listeners = 1
    /\ hid.calls = 1
    /\ last.op = "confirmSlot"

====
